---------------------------- MODULE Spec2Model ----------------------------
(***************************************************************************)
(* A model of fantasylife_tools: the row schema compiler and row codec of  *)
(* table.py, the SCR container loader, row iterator and text decoder of    *)
(* scr.py, and the directory walk of arc.py.                               *)
(*                                                                         *)
(* Bytes are integers 0..255, byte strings are sequences of bytes, and     *)
(* Python text is a sequence of code points.  An exception raised by the   *)
(* code is a record [exc |-> <class name>].                                *)
(***************************************************************************)
EXTENDS Integers, Sequences, FiniteSets, TLC

VARIABLES
    \* table.py
    tableinfo,   \* the schema handed to newrowclass
    Row,         \* the class newrowclass returned (NoValue before the call)
    bytes_obj,   \* the bytes handed to Row.feed
    row,         \* the row object Row.feed returned, or the exception raised
    packed,      \* what row.tobytes() returned, or the exception raised
    tpc,         \* "schema" | "compiled" | "fed" | "packed"
    \* scr.py: load, SCR.__init__, SCR.iterrowbytes
    file,        \* the bytes of the file load opens
    scr,         \* the SCR object load returned, or the exception raised
    gen,         \* the running iterrowbytes generator: its row_index
    windows,     \* what the running generator has yielded
    passes,      \* the windows of every generator that ran to its end
    \* scr.py: SCR.getstring
    raw,         \* self.raw
    pos,         \* the scan position
    strings,     \* the fragments appended so far
    ret,         \* NoValue while the loop runs, then the string returned or the exception
    last,        \* the iteration last run: its branch, and pos and len(strings) before it
    \* arc.py: the directory walk of __main__
    walk,        \* the files os.walk gives, in its order, each as its bytes
    visited,     \* how many of them the loop has taken
    written,     \* the (path, data) pairs unpack_file has written
    escaped      \* the exception that left the loop, NoValue while none has

tvars == <<tableinfo, Row, bytes_obj, row, packed, tpc>>

svars == <<file, scr, gen, windows, passes>>

gvars == <<raw, pos, strings, ret, last>>

avars == <<walk, visited, written, escaped>>

vars == <<tvars, svars, gvars, avars>>

NoValue == [none |-> TRUE]

\* An exception raised, and a value returned: results of a call are one or the other.
Raise(cls) == [exc |-> cls]

Return(v) == [val |-> v]

IsExc(r) == "exc" \in DOMAIN r

Returned(r) == "val" \in DOMAIN r

(***************************************************************************)
(* Bounds of the model.                                                    *)
(***************************************************************************)
MaxRowLength == 4
MaxColumns == 2
MaxRowCount == 2
MaxWindow == 2
DataLength == 4
MaxPasses == 2
MaxChunks == 2
MaxOffset == 1
MaxOverrun == 4
MaxWalk == 3

(***************************************************************************)
(* Python helpers.                                                         *)
(***************************************************************************)
Min(a, b) == IF a < b THEN a ELSE b

Max(a, b) == IF a > b THEN a ELSE b

\* s[a:b] of a bytes object, for a >= 0: the slice is clamped to the buffer.
Slice(s, a, b) ==
    LET hi == Min(b, Len(s))
    IN  IF a >= hi THEN << >> ELSE [i \in 1..(hi - a) |-> s[a + i]]

RECURSIVE Pow2(_)
Pow2(n) == IF n = 0 THEN 1 ELSE 2 * Pow2(n - 1)

\* x >> n and x << n of non-negative integers
Shr(x, n) == x \div Pow2(n)

Shl(x, n) == x * Pow2(n)

RECURSIVE BitAnd(_, _)
BitAnd(x, y) ==
    IF x = 0 \/ y = 0 THEN 0
    ELSE (IF x % 2 = 1 /\ y % 2 = 1 THEN 1 ELSE 0) + 2 * BitAnd(x \div 2, y \div 2)

RECURSIVE BitOr(_, _)
BitOr(x, y) ==
    IF x = 0 THEN y
    ELSE IF y = 0 THEN x
    ELSE (IF x % 2 = 1 \/ y % 2 = 1 THEN 1 ELSE 0) + 2 * BitOr(x \div 2, y \div 2)

\* the unsigned integer a byte string holds, least significant byte first
RECURSIVE LittleEndian(_)
LittleEndian(bs) ==
    IF bs = << >> THEN 0 ELSE bs[1] + 256 * LittleEndian(Tail(bs))

Reverse(s) == [i \in 1..Len(s) |-> s[Len(s) + 1 - i]]

\* n bytes of the unsigned integer v, least significant byte first
RECURSIVE ToLittleEndian(_, _)
ToLittleEndian(v, n) ==
    IF n = 0 THEN << >> ELSE <<v % 256>> \o ToLittleEndian(v \div 256, n - 1)

\* format(n) of a non-negative integer: its decimal digits, as code points
RECURSIVE FormatInt(_)
FormatInt(n) ==
    IF n < 10 THEN <<48 + n>> ELSE FormatInt(n \div 10) \o <<48 + (n % 10)>>

(***************************************************************************)
(* table.py: the struct module.  A format is a byte order and a sequence   *)
(* of items [code, count]: "<2sB" is ["<", <<[code "s", count 2],          *)
(* [code "B", count 1]>>].  With "<" and ">" there is no padding.          *)
(***************************************************************************)
\* newrowclass's types dictionary
StructChr(type) ==
    CASE type = "s8" -> "b"
      [] type = "u8" -> "B"
      [] type = "s16" -> "h"
      [] type = "u16" -> "H"
      [] type = "s32" -> "i"
      [] type = "u32" -> "I"
      [] type = "s64" -> "q"
      [] type = "u64" -> "Q"
      [] type = "f32" -> "f"
      [] type = "str" -> "I"
      [] type = "ptr" -> "I"
      [] type = "bit8" -> "B"
      [] type = "bit16" -> "H"
      [] type = "bit32" -> "I"
      [] type = "bit64" -> "Q"
      [] type = "enum8" -> "B"
      [] type = "enum16" -> "H"

\* struct.calcsize of one format character
Calcsize(chr) ==
    CASE chr \in {"b", "B"} -> 1
      [] chr \in {"h", "H"} -> 2
      [] chr \in {"i", "I", "f"} -> 4
      [] chr \in {"q", "Q"} -> 8

ItemSize(item) == IF item.code = "s" THEN item.count ELSE Calcsize(item.code)

RECURSIVE StructSize(_)
StructSize(items) ==
    IF items = << >> THEN 0 ELSE ItemSize(items[1]) + StructSize(Tail(items))

\* the byte offset at which struct reads or writes item i of the format
RECURSIVE ItemOffset(_, _)
ItemOffset(items, i) ==
    IF i = 1 THEN 0 ELSE ItemOffset(items, i - 1) + ItemSize(items[i - 1])

IsBit(type) == type \in {"bit8", "bit16", "bit32", "bit64"}

IsEnum(type) == type \in {"enum8", "enum16"}

\* the value struct.unpack gives for one item from its bytes
UnpackItem(order, item, bs) ==
    LET u == LittleEndian(IF order = "<" THEN bs ELSE Reverse(bs))
        full == Pow2(8 * Len(bs))
    IN  IF item.code = "s" THEN bs
        ELSE IF item.code \in {"b", "h", "i", "q"} /\ 2 * u >= full THEN u - full
        ELSE u

\* struct_obj.unpack(bytes_obj)
Unpack(struct, bs) ==
    IF Len(bs) # StructSize(struct.items) THEN Raise("struct.error")
    ELSE Return([i \in 1..Len(struct.items) |->
            UnpackItem(struct.order, struct.items[i],
                       Slice(bs, ItemOffset(struct.items, i),
                             ItemOffset(struct.items, i) + ItemSize(struct.items[i])))])

\* one value written by struct.pack: integers are range-checked, "s" pads or cuts
PackItem(order, item, v) ==
    IF item.code = "s"
    THEN Return([i \in 1..item.count |-> IF i <= Len(v) THEN v[i] ELSE 0])
    ELSE LET n == Calcsize(item.code)
             full == Pow2(8 * n)
             signed == item.code \in {"b", "h", "i", "q"}
             lo == IF signed THEN 0 - (full \div 2) ELSE 0
             hi == IF signed THEN (full \div 2) - 1 ELSE full - 1
             le == ToLittleEndian(IF v < 0 THEN v + full ELSE v, n)
         IN  IF v < lo \/ v > hi THEN Raise("struct.error")
             ELSE Return(IF order = "<" THEN le ELSE Reverse(le))

RECURSIVE PackFrom(_, _, _)
PackFrom(struct, values, i) ==
    IF i > Len(struct.items) THEN Return(<< >>)
    ELSE LET head == PackItem(struct.order, struct.items[i], values[i])
             rest == PackFrom(struct, values, i + 1)
         IN  IF IsExc(head) THEN head
             ELSE IF IsExc(rest) THEN rest
             ELSE Return(head.val \o rest.val)

\* struct_obj.pack(*rowdata)
Pack(struct, values) ==
    IF Len(values) # Len(struct.items) THEN Raise("struct.error")
    ELSE PackFrom(struct, values, 1)

(***************************************************************************)
(* table.py: newrowclass.  The class it returns is a record: fields (the   *)
(* namedtuple's field names), columns (newtableinfo) and struct_obj.       *)
(***************************************************************************)
\* 'c{}'.format(gapstart)
GapName(gapstart) == "c" \o ToString(gapstart)

GapInfo == [type |-> "gap"]

GapItem(n) == [code |-> "s", count |-> n]

\* a gap test that also fires at offset = gapstart, adding a field of no bytes
GapBeforeOrAt(column, gapstart) == column.offset >= gapstart

\* lines 135-141: the gap field in front of a column whose offset is past gapstart
GapBefore(column, gapstart) == column.offset > gapstart

\* lines 143-147: the field names a column adds
ColumnNames(column) ==
    IF IsBit(column.type)
    THEN <<column.name>> \o [k \in 1..Len(column.columns) |-> column.columns[k].name]
    ELSE <<column.name>>

\* lines 134-151: one pass of the loop over tableinfo['columns']
NewRowClassStep(acc, column) ==
    LET gap == GapBefore(column, acc.gapstart)
        structchr == StructChr(column.type)
    IN  [gapstart |-> column.offset + Calcsize(structchr),
         items |-> acc.items
                   \o (IF gap THEN <<GapItem(column.offset - acc.gapstart)>> ELSE << >>)
                   \o <<[code |-> structchr, count |-> 1]>>,
         fields |-> acc.fields
                    \o (IF gap THEN <<GapName(acc.gapstart)>> ELSE << >>)
                    \o ColumnNames(column),
         newtableinfo |-> acc.newtableinfo
                          \o (IF gap THEN <<GapInfo>> ELSE << >>)
                          \o <<column>>]

RECURSIVE NewRowClassLoop(_, _, _)
NewRowClassLoop(columns, i, acc) ==
    IF i > Len(columns) THEN acc
    ELSE NewRowClassLoop(columns, i + 1, NewRowClassStep(acc, columns[i]))

\* lines 152-158: the gap field after the last column
TrailingGap(acc, row_length) == acc.gapstart < row_length

HasDuplicates(names) == \E i, j \in 1..Len(names) : i < j /\ names[i] = names[j]

\* namedtuple('Row', columns) refuses a field name given twice
Namedtuple(fields) ==
    IF HasDuplicates(fields) THEN Raise("ValueError") ELSE Return(fields)

newrowclass(ti) ==
    LET order == IF "endianess" \in DOMAIN ti THEN ti.endianess ELSE "<"
        acc == NewRowClassLoop(ti.columns, 1,
                   [gapstart |-> 0, items |-> << >>, fields |-> << >>,
                    newtableinfo |-> << >>])
        trail == TrailingGap(acc, ti.row_length)
        items == acc.items
                 \o (IF trail THEN <<GapItem(ti.row_length - acc.gapstart)>> ELSE << >>)
        fields == acc.fields \o (IF trail THEN <<GapName(acc.gapstart)>> ELSE << >>)
        newtableinfo == acc.newtableinfo \o (IF trail THEN <<GapInfo>> ELSE << >>)
        nt == Namedtuple(fields)
    IN  IF IsExc(nt) THEN nt
        ELSE Return([fields |-> fields,
                     columns |-> newtableinfo,
                     struct_obj |-> [order |-> order, items |-> items]])

(***************************************************************************)
(* table.py: feed.  A row object is its class and its values in field      *)
(* order.                                                                  *)
(***************************************************************************)
\* line 71: one sub-field of a bitfield's raw value
BitValue(element, bitcolumn) ==
    BitAnd(Shr(element, bitcolumn.offset), Shl(1, bitcolumn.length) - 1)

\* lines 66-75: the values one column adds to the row, or the KeyError of an
\* enum value without a label.  hook is "None" or the name of the string hook.
FeedColumn(info, element, hook) ==
    IF info.type = "str" /\ hook # "None"
    THEN Return(<<[hook |-> hook, offset |-> element]>>)
    ELSE IF IsBit(info.type)
    THEN Return(<<element>>
                \o [k \in 1..Len(info.columns) |-> BitValue(element, info.columns[k])])
    ELSE IF IsEnum(info.type)
    THEN IF ToString(element) \in DOMAIN info.enum
         THEN Return(<<info.enum[ToString(element)]>>)
         ELSE Raise("KeyError")
    ELSE Return(<<element>>)

RECURSIVE FeedLoop(_, _, _, _)
FeedLoop(columns, rawdata, hook, i) ==
    IF i > Len(columns) THEN Return(<< >>)
    ELSE LET head == FeedColumn(columns[i], rawdata[i], hook)
         IN  IF IsExc(head) THEN head
             ELSE LET rest == FeedLoop(columns, rawdata, hook, i + 1)
                  IN  IF IsExc(rest) THEN rest ELSE Return(head.val \o rest.val)

feed(cls, bs, get_string_hook) ==
    LET rawdata == Unpack(cls.struct_obj, bs)
    IN  IF IsExc(rawdata) THEN rawdata
        ELSE LET data == FeedLoop(cls.columns, rawdata.val, get_string_hook, 1)
             IN  IF IsExc(data) THEN data
                 ELSE IF Len(data.val) # Len(cls.fields) THEN Raise("TypeError")
                 ELSE Return([cls |-> cls, data |-> data.val])

(***************************************************************************)
(* table.py: tobytes.                                                      *)
(***************************************************************************)
\* the attributes newrowclass sets on the class, and namedtuple's own
ClassAttributes ==
    {"columns", "struct_obj", "feed", "totext", "tobytes",
     "_make", "_fields", "_asdict", "_replace", "count", "index"}

FieldIndex(cls, name) == CHOOSE i \in 1..Len(cls.fields) : cls.fields[i] = name

\* self.<attr>: a field's value, a class attribute, or AttributeError
Getattr(self, attr) ==
    IF \E i \in 1..Len(self.cls.fields) : self.cls.fields[i] = attr
    THEN Return(self.data[FieldIndex(self.cls, attr)])
    ELSE IF attr \in ClassAttributes THEN Return([attribute |-> attr])
    ELSE Raise("AttributeError")

\* self.__getattr__(column['name']): the method is looked up on the row first,
\* and only then is the column's name read
CallGetattr(self, column) ==
    LET method == Getattr(self, "__getattr__")
    IN  IF IsExc(method) THEN method
        ELSE IF "name" \notin DOMAIN column THEN Raise("KeyError")
        ELSE Getattr(self, column.name)

\* lines 105-106: one sub-field folded into bitdata
PackBitsStep(bitdata, value, bitcolumn) ==
    BitAnd(BitOr(bitdata, Shl(Shl(1, bitcolumn.length) - 1, bitcolumn.offset)),
           Shl(value, bitcolumn.offset))

\* lines 103-107: the raw integer of a bitfield column
RECURSIVE PackBits(_, _, _, _)
PackBits(self, bitcolumns, k, bitdata) ==
    IF k > Len(bitcolumns) THEN Return(bitdata)
    ELSE LET value == CallGetattr(self, bitcolumns[k])
         IN  IF IsExc(value) THEN value
             ELSE PackBits(self, bitcolumns, k + 1,
                           PackBitsStep(bitdata, value.val, bitcolumns[k]))

\* lines 101-109: the value one column adds to rowdata
TobytesColumn(self, column) ==
    LET value == CallGetattr(self, column)
    IN  IF IsExc(value) THEN value
        ELSE IF IsBit(column.type) THEN PackBits(self, column.columns, 1, value.val)
        ELSE value

RECURSIVE TobytesLoop(_, _, _)
TobytesLoop(self, i, rowdata) ==
    IF i > Len(self.cls.columns) THEN Return(rowdata)
    ELSE LET value == TobytesColumn(self, self.cls.columns[i])
         IN  IF IsExc(value) THEN value
             ELSE TobytesLoop(self, i + 1, Append(rowdata, value.val))

tobytes(self) ==
    LET rowdata == TobytesLoop(self, 1, << >>)
    IN  IF IsExc(rowdata) THEN rowdata ELSE Pack(self.cls.struct_obj, rowdata.val)

(***************************************************************************)
(* The schemas and rows the table specification draws from.                *)
(***************************************************************************)
InputTypes == {"u8", "s16", "bit8", "enum8", "str"}

InputBytes == {0, 1, 131}

\* the sub-fields of a bitfield column: two that fit, one that fills the parent,
\* one that runs past bit 7
BitLayouts ==
    {<<[name |-> "x", offset |-> 0, length |-> 1],
       [name |-> "y", offset |-> 1, length |-> 2]>>,
     <<[name |-> "x", offset |-> 0, length |-> 8]>>,
     <<[name |-> "x", offset |-> 6, length |-> 3]>>}

EnumTable == ("0" :> "zero") @@ ("1" :> "one")

ColumnName(i) == <<"a", "b", "d", "e", "f">>[i]

ColumnShapes ==
    {[type |-> t, offset |-> o, layout |-> l] :
        t \in InputTypes \ {"bit8"}, o \in 0..MaxRowLength, l \in {<< >>}}
    \cup {[type |-> t, offset |-> o, layout |-> l] :
        t \in {"bit8"}, o \in 0..MaxRowLength, l \in BitLayouts}

\* column i of a schema: its names are its own, as namedtuple requires
MakeColumn(i, shape) ==
    [name |-> ColumnName(i), type |-> shape.type, offset |-> shape.offset,
     columns |-> [k \in 1..Len(shape.layout) |->
                    [name |-> ColumnName(i) \o "_" \o shape.layout[k].name,
                     offset |-> shape.layout[k].offset,
                     length |-> shape.layout[k].length]],
     enum |-> IF IsEnum(shape.type) THEN EnumTable ELSE << >>]

\* the column list of the shapes
Columns(shapes) == [i \in 1..Len(shapes) |-> MakeColumn(i, shapes[i])]

\* a table description, without an 'endianess' key or with '>' for it
TableInfo(n, shapes, endianess) ==
    IF endianess = ""
    THEN [row_length |-> n, columns |-> Columns(shapes)]
    ELSE [row_length |-> n, columns |-> Columns(shapes), endianess |-> endianess]

\* The integers of the model are below 2^31: a row is fed only when the most
\* significant byte of each of its 4-byte values is below 128.
Below2To31(struct, bs) ==
    \A i \in 1..Len(struct.items) :
        (ItemSize(struct.items[i]) = 4 /\ struct.items[i].code # "s")
        => LET first == ItemOffset(struct.items, i) + 1
               top == IF struct.order = "<" THEN first + 3 ELSE first
           IN  top <= Len(bs) => bs[top] < 128

RowBytes(cls, n) == {bs \in [1..n -> InputBytes] : Below2To31(cls.struct_obj, bs)}

(***************************************************************************)
(* The table specification: a schema is compiled, a row is fed, the row is *)
(* packed again.                                                           *)
(***************************************************************************)
TableIdle ==
    /\ tableinfo = NoValue
    /\ Row = NoValue
    /\ bytes_obj = << >>
    /\ row = NoValue
    /\ packed = NoValue
    /\ tpc = "idle"

SCRIdle ==
    /\ file = << >>
    /\ scr = NoValue
    /\ gen = NoValue
    /\ windows = << >>
    /\ passes = << >>

TextIdle ==
    /\ raw = << >>
    /\ pos = 0
    /\ strings = << >>
    /\ ret = NoValue
    /\ last = NoValue

ArcIdle ==
    /\ walk = << >>
    /\ visited = 0
    /\ written = << >>
    /\ escaped = NoValue

TableInit ==
    /\ SCRIdle
    /\ TextIdle
    /\ ArcIdle
    /\ \E n \in 0..MaxRowLength, k \in 0..MaxColumns :
         \E shapes \in [1..k -> ColumnShapes], endianess \in {"", ">"} :
            tableinfo = TableInfo(n, shapes, endianess)
    /\ Row = NoValue
    /\ bytes_obj = << >>
    /\ row = NoValue
    /\ packed = NoValue
    /\ tpc = "schema"

\* Row = newrowclass(tableinfo)
Compile ==
    /\ tpc = "schema"
    /\ Row' = newrowclass(tableinfo)
    /\ tpc' = "compiled"
    /\ UNCHANGED <<tableinfo, bytes_obj, row, packed, svars, gvars, avars>>

\* row = Row.feed(bytes_obj, get_string_hook)
Feed ==
    /\ tpc = "compiled"
    /\ Returned(Row)
    /\ \E bs \in RowBytes(Row.val, tableinfo.row_length), hook \in {"None", "getstring"} :
         /\ bytes_obj' = bs
         /\ row' = feed(Row.val, bs, hook)
    /\ tpc' = "fed"
    /\ UNCHANGED <<tableinfo, Row, packed, svars, gvars, avars>>

\* packed = row.tobytes()
ToBytes ==
    /\ tpc = "fed"
    /\ Returned(row)
    /\ packed' = tobytes(row.val)
    /\ tpc' = "packed"
    /\ UNCHANGED <<tableinfo, Row, bytes_obj, row, svars, gvars, avars>>

TableNext == Compile \/ Feed \/ ToBytes

TableSpec == TableInit /\ [][TableNext]_vars

\* the compiler alone, for the claims about the layout
CompileSpec == TableInit /\ [][Compile]_vars

(***************************************************************************)
(* What the claims say of a schema.                                        *)
(***************************************************************************)
ColumnEnd(column) == column.offset + Calcsize(StructChr(column.type))

\* ascending offsets, no two columns overlapping, none past row_length
ValidLayout(ti) ==
    /\ \A i \in 1..Len(ti.columns) : ColumnEnd(ti.columns[i]) <= ti.row_length
    /\ \A i \in 1..(Len(ti.columns) - 1) :
         ColumnEnd(ti.columns[i]) <= ti.columns[i + 1].offset

Overlapping(ti) ==
    \E i, j \in 1..Len(ti.columns) :
        /\ i # j
        /\ ti.columns[i].offset < ColumnEnd(ti.columns[j])
        /\ ti.columns[j].offset < ColumnEnd(ti.columns[i])

PastRowLength(ti) == \E i \in 1..Len(ti.columns) : ColumnEnd(ti.columns[i]) > ti.row_length

BitsPastParent(ti) ==
    \E i \in 1..Len(ti.columns) :
        /\ IsBit(ti.columns[i].type)
        /\ \E k \in 1..Len(ti.columns[i].columns) :
             ti.columns[i].columns[k].offset + ti.columns[i].columns[k].length
                > 8 * Calcsize(StructChr(ti.columns[i].type))

HasBitColumn(ti) == \E i \in 1..Len(ti.columns) : IsBit(ti.columns[i].type)

\* the declared columns of a compiled layout, in order
RECURSIVE Declared(_)
Declared(infos) ==
    IF infos = << >> THEN << >>
    ELSE (IF infos[1].type = "gap" THEN << >> ELSE <<infos[1]>>) \o Declared(Tail(infos))

\* the field of a compiled layout that holds byte b of the row
FieldsAt(cls, b) ==
    {k \in 1..Len(cls.struct_obj.items) :
        /\ ItemOffset(cls.struct_obj.items, k) <= b
        /\ b < ItemOffset(cls.struct_obj.items, k) + ItemSize(cls.struct_obj.items[k])}

IsPartition(cls, ti) ==
    LET items == cls.struct_obj.items
        infos == cls.columns
    IN  /\ Len(items) = Len(infos)
        /\ StructSize(items) = ti.row_length
        /\ Declared(infos) = ti.columns
        /\ \A k \in 1..Len(items) :
             /\ ItemSize(items[k]) > 0
             /\ infos[k].type = "gap" <=> items[k].code = "s"
             /\ infos[k].type # "gap" =>
                  /\ ItemOffset(items, k) = infos[k].offset
                  /\ ItemSize(items[k]) = Calcsize(StructChr(infos[k].type))
             /\ (k > 1 /\ infos[k].type = "gap") => infos[k - 1].type # "gap"
        /\ \A b \in 0..(ti.row_length - 1) : Cardinality(FieldsAt(cls, b)) = 1

C2_InvalidSchemaRejected ==
    (tpc = "compiled"
     /\ (Overlapping(tableinfo) \/ PastRowLength(tableinfo) \/ BitsPastParent(tableinfo)))
        => IsExc(Row)

\* the sub-field values of the bitfield columns of a row, in field order
RECURSIVE SubFieldValues(_, _, _)
SubFieldValues(infos, data, at) ==
    IF infos = << >> THEN << >>
    ELSE IF IsBit(infos[1].type)
    THEN [k \in 1..Len(infos[1].columns) |-> data[at + k]]
         \o SubFieldValues(Tail(infos), data, at + 1 + Len(infos[1].columns))
    ELSE SubFieldValues(Tail(infos), data, at + 1)

BitsDisjoint(ti) ==
    \A i \in 1..Len(ti.columns) :
        \A k, l \in 1..Len(ti.columns[i].columns) :
            k < l => \/ ti.columns[i].columns[k].offset + ti.columns[i].columns[k].length
                            <= ti.columns[i].columns[l].offset
                     \/ ti.columns[i].columns[l].offset + ti.columns[i].columns[l].length
                            <= ti.columns[i].columns[k].offset

\* C3: for a bitfield column with non-overlapping sub-fields, tobytes packs the
\* sub-field values so that feeding the packed bytes gives the same sub-field
\* values again.
C3_BitfieldRoundTrip ==
    (tpc = "packed" /\ ValidLayout(tableinfo) /\ HasBitColumn(tableinfo)
     /\ BitsDisjoint(tableinfo) /\ ~BitsPastParent(tableinfo))
        => /\ Returned(packed)
           /\ Returned(feed(Row.val, packed.val, "None"))
           /\ SubFieldValues(Row.val.columns, feed(Row.val, packed.val, "None").val.data, 0)
                = SubFieldValues(Row.val.columns, row.val.data, 0)

\* C4: for a valid layout without bitfield columns, feeding row_length bytes and
\* packing the row again gives the bytes that were fed.
C4_ByteRoundTrip ==
    (tpc = "packed" /\ ValidLayout(tableinfo) /\ ~HasBitColumn(tableinfo))
        => packed = Return(bytes_obj)

(***************************************************************************)
(* scr.py: load, SCR.__init__ and SCR.iterrowbytes.                        *)
(***************************************************************************)
\* b'\x13\x80\x03\x1D'
Magic == <<19, 128, 3, 29>>

PrefixLength == 16

TableInfoField == 20

\* unpack('<I', bs) and unpack('<3I', bs): struct.error unless bs has the size
UnpackU32s(bs, n) ==
    IF Len(bs) # 4 * n THEN Raise("struct.error")
    ELSE Return([k \in 1..n |-> LittleEndian(Slice(bs, 4 * (k - 1), 4 * k))])

\* SCR.__init__
SCRInit(buf) ==
    LET table_info_offset == UnpackU32s(Slice(buf, TableInfoField, TableInfoField + 4), 1)
    IN  IF IsExc(table_info_offset) THEN table_info_offset
        ELSE LET info == UnpackU32s(Slice(buf, table_info_offset.val[1],
                                          table_info_offset.val[1] + 12), 3)
             IN  IF IsExc(info) THEN info
                 ELSE Return([raw |-> buf,
                              row_count |-> info.val[1],
                              row_length |-> info.val[2],
                              table_offset |-> info.val[3]])

\* a load that reads the second form from the start of the file again
loadKeepingPrefix(f) ==
    IF Slice(f, 0, 4) = Magic \/ Slice(f, PrefixLength, PrefixLength + 4) = Magic
    THEN SCRInit(f)
    ELSE Raise("UnsupportedSCRError")

\* load: a seek past the end of the file is allowed and the read then gives b''
load(f) ==
    IF Slice(f, 0, 4) = Magic THEN SCRInit(f)
    ELSE IF Slice(f, PrefixLength, PrefixLength + 4) = Magic
    THEN SCRInit(Slice(f, PrefixLength, Len(f)))
    ELSE Raise("UnsupportedSCRError")

\* lines 227-228: the window iterrowbytes yields for row_index; a slice of a
\* memoryview is clamped to the buffer like a slice of bytes
RowWindow(self, row_index) ==
    LET offset == self.table_offset + row_index * self.row_length
    IN  [offset |-> offset, bytes |-> Slice(self.raw, offset, offset + self.row_length)]

(***************************************************************************)
(* The files the container specification draws from: an optional 16-byte   *)
(* prefix, 4 bytes of magic, 16 bytes, the offset of the descriptor, the   *)
(* descriptor and DataLength bytes of rows, cut at any length.             *)
(***************************************************************************)
U32(v) == ToLittleEndian(v, 4)

NotMagic == <<19, 128, 3, 0>>

DescriptorAt == TableInfoField + 4

DataAt == DescriptorAt + 12

\* the 16 bytes after the magic: the first four are read as the descriptor's
\* offset when a prefixed file is parsed from its start
AfterMagic == U32(PrefixLength + DescriptorAt) \o [i \in 1..12 |-> 0]

Prefixes == {<< >>, [i \in 1..PrefixLength |-> 170], Magic \o [i \in 1..12 |-> 0]}

Body(head, tio, rc, rl, to) ==
    head \o AfterMagic \o U32(tio) \o U32(rc) \o U32(rl) \o U32(to)
    \o [i \in 1..DataLength |-> i]

ContainerInit ==
    /\ TableIdle
    /\ TextIdle
    /\ ArcIdle
    /\ \E prefix \in Prefixes, head \in {Magic, NotMagic},
          tio \in {DescriptorAt, DescriptorAt + 4, DataAt + DataLength + PrefixLength},
          rc \in 0..MaxRowCount, rl \in 0..MaxWindow,
          to \in DataAt..(DataAt + DataLength),
          n \in 0..(PrefixLength + DataAt + DataLength) :
            file = Slice(prefix \o Body(head, tio, rc, rl, to), 0, n)
    /\ scr = NoValue
    /\ gen = NoValue
    /\ windows = << >>
    /\ passes = << >>

\* scr = load(path)
Load ==
    /\ scr = NoValue
    /\ scr' = load(file)
    /\ UNCHANGED <<file, gen, windows, passes, tvars, gvars, avars>>

\* it = scr.iterrowbytes(): nothing of the generator's body has run yet
IterRowBytes ==
    /\ Returned(scr)
    /\ gen = NoValue
    /\ Len(passes) < MaxPasses
    /\ gen' = [row_index |-> 0]
    /\ windows' = << >>
    /\ UNCHANGED <<file, scr, passes, tvars, gvars, avars>>

\* next(it), while range(row_count) lasts
NextWindow ==
    /\ gen # NoValue
    /\ gen.row_index < scr.val.row_count
    /\ windows' = Append(windows, RowWindow(scr.val, gen.row_index))
    /\ gen' = [row_index |-> gen.row_index + 1]
    /\ UNCHANGED <<file, scr, passes, tvars, gvars, avars>>

\* next(it) at the end of range(row_count): StopIteration
StopIteration ==
    /\ gen # NoValue
    /\ gen.row_index >= scr.val.row_count
    /\ passes' = Append(passes, windows)
    /\ gen' = NoValue
    /\ UNCHANGED <<file, scr, windows, tvars, gvars, avars>>

ContainerNext == Load \/ IterRowBytes \/ NextWindow \/ StopIteration

ContainerSpec == ContainerInit /\ [][ContainerNext]_vars

MagicAtStart == Slice(file, 0, 4) = Magic

MagicAfterPrefix == Slice(file, PrefixLength, PrefixLength + 4) = Magic

\* the buffer load hands to SCR.__init__
BufferTaken == IF MagicAtStart THEN file ELSE Slice(file, PrefixLength, Len(file))

\* the buffer holds the 4-byte field at 0x14 and the 12-byte descriptor the
\* field points at
HoldsDescriptor(buf) ==
    /\ Len(buf) >= TableInfoField + 4
    /\ LittleEndian(Slice(buf, TableInfoField, TableInfoField + 4)) + 12 <= Len(buf)

\* C5 as stated: load succeeds with the whole buffer when the magic is at offset
\* 0, succeeds with the first 16 bytes discarded when it is at offset 0x10, and
\* fails with UnsupportedSCRError for every other input.
C5_LoadByMagicAlone ==
    scr # NoValue =>
        /\ MagicAtStart => (Returned(scr) /\ scr.val.raw = file)
        /\ (~MagicAtStart /\ MagicAfterPrefix)
             => (Returned(scr) /\ scr.val.raw = Slice(file, PrefixLength, Len(file)))
        /\ (~MagicAtStart /\ ~MagicAfterPrefix) => scr = Raise("UnsupportedSCRError")

\* C5, amended: load takes the whole buffer when the magic is at offset 0 and
\* otherwise the buffer without its first 16 bytes when the magic is at offset
\* 0x10; it returns a container over the buffer taken when that buffer holds the
\* field at 0x14 and the descriptor it points at, and fails with struct.error
\* when it does not; every other input fails with UnsupportedSCRError.
C5_LoadByMagicAndDescriptor ==
    scr # NoValue =>
        /\ (MagicAtStart \/ MagicAfterPrefix)
             => IF HoldsDescriptor(BufferTaken)
                THEN Returned(scr) /\ scr.val.raw = BufferTaken
                ELSE scr = Raise("struct.error")
        /\ (~MagicAtStart /\ ~MagicAfterPrefix) => scr = Raise("UnsupportedSCRError")

\* a prefixed file loaded without its prefix
C5_Witness ==
    /\ Returned(scr)
    /\ ~MagicAtStart
    /\ MagicAfterPrefix
    /\ Len(scr.val.raw) = Len(file) - PrefixLength
    /\ scr.val.row_count > 0

\* C6: every constructed container has table_offset + row_count * row_length
\* within its buffer; a buffer whose descriptor breaks the bound is rejected.
C6_TableWithinBuffer ==
    Returned(scr) =>
        scr.val.table_offset + scr.val.row_count * scr.val.row_length <= Len(scr.val.raw)

WindowsAsClaimed(self, ws) ==
    \A i \in 1..Len(ws) :
        /\ ws[i].offset = self.table_offset + (i - 1) * self.row_length
        /\ Len(ws[i].bytes) = self.row_length
        /\ ws[i].bytes = [k \in 1..self.row_length |-> self.raw[ws[i].offset + k]]

\* C7: iterrowbytes yields row_count windows, window i being the row_length
\* bytes at table_offset + i * row_length, and yields the same again when run
\* again.
C7_RowWindows ==
    Returned(scr) =>
        /\ WindowsAsClaimed(scr.val, windows)
        /\ \A p \in 1..Len(passes) :
             /\ Len(passes[p]) = scr.val.row_count
             /\ WindowsAsClaimed(scr.val, passes[p])
             /\ passes[p] = passes[1]

(***************************************************************************)
(* scr.py: SCR.getstring.  One pass of its loop is one step: the branch of *)
(* the if/elif chain that the bytes at pos select, run to its end.         *)
(***************************************************************************)
\* the 4-byte sentinel with low byte b
Sentinel(b) == <<b, 255, 255, 255>>

\* unpack('<H', bs)
UnpackU16(bs) ==
    IF Len(bs) # 2 THEN Raise("struct.error") ELSE Return(LittleEndian(bs))

IsHighSurrogate(u) == 55296 <= u /\ u <= 56319

IsLowSurrogate(u) == 56320 <= u /\ u <= 57343

\* the code points of whole 2-byte units: a surrogate pair is one code point,
\* a surrogate alone is refused
RECURSIVE DecodeUnits(_)
DecodeUnits(bs) ==
    IF bs = << >> THEN Return(<< >>)
    ELSE LET u == bs[1] + 256 * bs[2]
         IN  IF IsLowSurrogate(u) THEN Raise("UnicodeDecodeError")
             ELSE IF IsHighSurrogate(u)
             THEN IF Len(bs) >= 4 /\ IsLowSurrogate(bs[3] + 256 * bs[4])
                  THEN LET rest == DecodeUnits(Slice(bs, 4, Len(bs)))
                       IN  IF IsExc(rest) THEN rest
                           ELSE Return(<<65536 + (u - 55296) * 1024
                                           + (bs[3] + 256 * bs[4] - 56320)>> \o rest.val)
                  ELSE Raise("UnicodeDecodeError")
             ELSE LET rest == DecodeUnits(Slice(bs, 2, Len(bs)))
                  IN  IF IsExc(rest) THEN rest ELSE Return(<<u>> \o rest.val)

\* bs.decode('utf-16le')
Decode(bs) ==
    IF Len(bs) % 2 = 1 THEN Raise("UnicodeDecodeError") ELSE DecodeUnits(bs)

\* SCR.buttons
ButtonLabel(button) ==
    CASE button = 0 -> <<65>>
      [] button = 1 -> <<66>>
      [] button = 2 -> <<88>>
      [] button = 3 -> <<68, 45, 80, 97, 100>>
      [] button = 4 -> <<67, 105, 114, 99, 108, 101, 32, 80, 97, 100>>
      [] button \in {5, 7} -> <<76>>
      [] button \in {6, 8} -> <<82>>
      [] button \in {9, 10} -> <<89>>
      [] OTHER -> <<63>>

\* the literals getstring appends: ' / ', '\\n', '(', ' (' and ')'
Slash == <<32, 47, 32>>

BackslashN == <<92, 110>>

OpenParen == <<40>>

SpaceOpenParen == <<32, 40>>

CloseParen == <<41>>

\* ''.join(strings)
RECURSIVE Join(_)
Join(fragments) ==
    IF fragments = << >> THEN << >> ELSE fragments[1] \o Join(Tail(fragments))

\* the if/elif chain of lines 148-220: the branch the bytes at p select.  The
\* second test for F1 FF FF FF (line 209) can never be the first to match.
BranchAt(buf, p) ==
    LET four == Slice(buf, p, p + 4)
        two == Slice(buf, p, p + 2)
    IN  CASE four = Sentinel(233) -> "branch"
          [] four = Sentinel(241) -> "pause"
          [] four = Sentinel(244) -> "furigana"
          [] four = Sentinel(245) -> "choice"
          [] four = Sentinel(246) -> "variable"
          [] four = Sentinel(247) -> "color"
          [] four = Sentinel(249) -> "button"
          [] four = Sentinel(240) -> "linebreak"
          [] OTHER -> IF two = <<255, 255>> THEN "filler"
                      ELSE IF two # <<0, 0>> THEN "plain"
                      ELSE "break"

\* what a pass of the loop leaves: the new pos and the fragments it appended
Pass(p, appended) == Return([pos |-> p, appended |-> appended])

\* lines 149-161
BranchPass(buf, p) ==
    LET count1 == UnpackU16(Slice(buf, p + 22, p + 24))
    IN  IF IsExc(count1) THEN count1
        ELSE LET p1 == p + 24
                 first == Decode(Slice(buf, p1, p1 + count1.val - 2))
                 p2 == p1 + count1.val
                 p3 == IF Slice(buf, p2, p2 + 2) = <<255, 255>> THEN p2 + 2 ELSE p2
                 count2 == UnpackU16(Slice(buf, p3 + 2, p3 + 4))
                 second == Decode(Slice(buf, p3 + 4, p3 + 2 + count2.val))
             IN  IF IsExc(first) THEN first
                 ELSE IF IsExc(count2) THEN count2
                 ELSE IF IsExc(second) THEN second
                 ELSE Pass(p3 + 4 + count2.val, <<first.val, Slash, second.val>>)

\* lines 169-171
FuriganaPass(buf, p) ==
    LET count == UnpackU16(Slice(buf, p + 10, p + 12))
    IN  IF IsExc(count) THEN count ELSE Pass(p + 12 + count.val, << >>)

\* an option scan that runs to the declared length whatever the bytes are
ChoiceEndPosUncut(buf, at, limit) == IF at < limit THEN limit ELSE at

\* lines 179-182: where the scan of one option stops
RECURSIVE ChoiceEndPos(_, _, _)
ChoiceEndPos(buf, at, limit) ==
    IF at < limit /\ Slice(buf, at, at + 2) # <<0, 0>>
    THEN ChoiceEndPos(buf, at + 2, limit)
    ELSE at

\* line 176: the opening fragment of a choice set
ChoiceOpen(had) == IF had > 0 THEN SpaceOpenParen ELSE OpenParen

\* lines 177-186: the options from choice_index on
RECURSIVE ChoiceOptions(_, _, _, _)
ChoiceOptions(buf, p, choice_index, choice_count) ==
    IF choice_index >= choice_count THEN Pass(p, << >>)
    ELSE LET count == UnpackU16(Slice(buf, p + 4, p + 6))
         IN  IF IsExc(count) THEN count
             ELSE LET text == Decode(Slice(buf, p + 8,
                                           ChoiceEndPos(buf, p + 8, p + 8 + count.val)))
                  IN  IF IsExc(text) THEN text
                      ELSE LET rest == ChoiceOptions(buf, p + 8 + count.val,
                                                     choice_index + 1, choice_count)
                           IN  IF IsExc(rest) THEN rest
                               ELSE Pass(rest.val.pos,
                                         <<text.val>>
                                         \o (IF choice_index # choice_count - 1
                                             THEN <<Slash>> ELSE << >>)
                                         \o rest.val.appended)

\* lines 174-187; had is len(strings) before the pass
ChoicePass(buf, p, had) ==
    LET choice_count == UnpackU32s(Slice(buf, p + 12, p + 16), 1)
    IN  IF IsExc(choice_count) THEN choice_count
        ELSE LET options == ChoiceOptions(buf, p + 16 + 4 * choice_count.val[1], 0,
                                          choice_count.val[1])
             IN  IF IsExc(options) THEN options
                 ELSE Pass(options.val.pos,
                           <<ChoiceOpen(had)>> \o options.val.appended \o <<CloseParen>>)

\* lines 190-192: '({}, {})'.format(*unpacked)
VariablePass(buf, p) ==
    LET unpacked == UnpackU32s(Slice(buf, p + 4, p + 12), 2)
    IN  IF IsExc(unpacked) THEN unpacked
        ELSE Pass(p + 12, <<OpenParen \o FormatInt(unpacked.val[1]) \o <<44, 32>>
                            \o FormatInt(unpacked.val[2]) \o CloseParen>>)

\* lines 198-203
ButtonPass(buf, p) ==
    LET button == UnpackU32s(Slice(buf, p + 8, p + 12), 1)
    IN  IF IsExc(button) THEN button ELSE Pass(p + 12, <<ButtonLabel(button.val[1])>>)

\* lines 216-217
PlainPass(buf, p) ==
    LET text == Decode(Slice(buf, p, p + 2))
    IN  IF IsExc(text) THEN text ELSE Pass(p + 2, <<text.val>>)

\* one pass of the loop at p
LoopPass(buf, p, had) ==
    CASE BranchAt(buf, p) = "branch" -> BranchPass(buf, p)
      [] BranchAt(buf, p) = "pause" -> Pass(p + 8, <<BackslashN>>)
      [] BranchAt(buf, p) = "furigana" -> FuriganaPass(buf, p)
      [] BranchAt(buf, p) = "choice" -> ChoicePass(buf, p, had)
      [] BranchAt(buf, p) = "variable" -> VariablePass(buf, p)
      [] BranchAt(buf, p) = "color" -> Pass(p + 12, << >>)
      [] BranchAt(buf, p) = "button" -> ButtonPass(buf, p)
      [] BranchAt(buf, p) = "linebreak" -> Pass(p + 8, <<BackslashN>>)
      [] BranchAt(buf, p) = "filler" -> Pass(p + 2, << >>)
      [] BranchAt(buf, p) = "plain" -> PlainPass(buf, p)

(***************************************************************************)
(* The buffers the text specification draws from: up to MaxChunks pieces   *)
(* of text markup one after the other, cut at any length.                  *)
(***************************************************************************)
U16(v) == ToLittleEndian(v, 2)

Zeros(n) == [i \in 1..n |-> 0]

\* a run of text as UTF-16LE, for code points below 256
RECURSIVE Utf16(_)
Utf16(text) == IF text = << >> THEN << >> ELSE <<text[1], 0>> \o Utf16(Tail(text))

\* one option of a choice set: 4 bytes, the byte count, 2 bytes, the bytes
OptionBytes(bs) == Zeros(4) \o U16(Len(bs)) \o Zeros(2) \o bs

RECURSIVE OptionsBytes(_)
OptionsBytes(options) ==
    IF options = << >> THEN << >>
    ELSE OptionBytes(options[1]) \o OptionsBytes(Tail(options))

ChoiceBytes(options) ==
    Sentinel(245) \o Zeros(8) \o U32(Len(options)) \o Zeros(4 * Len(options))
    \o OptionsBytes(options)

\* a branch: each string is counted with its terminator
BranchBytes(first, filler, second) ==
    Sentinel(233) \o Zeros(18) \o U16(Len(first) + 2) \o first \o Zeros(2)
    \o filler \o Zeros(2) \o U16(Len(second) + 2) \o second \o Zeros(2)

Chunks ==
    {Utf16(<<65>>),
     <<0, 0>>,
     <<255, 255>>,
     Sentinel(240) \o Zeros(4),
     Sentinel(241) \o Zeros(4),
     Sentinel(244) \o Zeros(6) \o U16(2) \o Utf16(<<107>>),
     ChoiceBytes(<<Utf16(<<88>>), Utf16(<<89>>)>>),
     ChoiceBytes(<<Utf16(<<88>>) \o <<0, 0>> \o Utf16(<<90>>)>>),
     ChoiceBytes(<<Utf16(<<88>>) \o <<90>>>>),
     Sentinel(246) \o U32(3) \o U32(12),
     Sentinel(247) \o Zeros(8),
     Sentinel(249) \o Zeros(4) \o U32(0),
     Sentinel(249) \o Zeros(4) \o U32(99),
     BranchBytes(Utf16(<<80>>), <<255, 255>>, Utf16(<<81>>)),
     BranchBytes(Utf16(<<80>>), << >>, Utf16(<<81>>))}

RECURSIVE Concat(_)
Concat(chunks) == IF chunks = << >> THEN << >> ELSE chunks[1] \o Concat(Tail(chunks))

TextInit ==
    /\ TableIdle
    /\ SCRIdle
    /\ ArcIdle
    /\ \E k \in 0..MaxChunks :
         \E chunks \in [1..k -> Chunks] :
            \E n \in 0..Len(Concat(chunks)) : raw = Slice(Concat(chunks), 0, n)
    /\ pos \in 0..MaxOffset
    /\ strings = << >>
    /\ ret = NoValue
    /\ last = NoValue

\* one pass of the loop.  The scan is followed no further than MaxOverrun
\* bytes past the end of the buffer.
Scan ==
    /\ ret = NoValue
    /\ pos <= Len(raw) + MaxOverrun
    /\ last' = [branch |-> BranchAt(raw, pos), pos |-> pos, had |-> Len(strings)]
    /\ LET pass == LoopPass(raw, pos, Len(strings))
       IN  IF IsExc(pass)
           THEN ret' = pass /\ UNCHANGED <<pos, strings>>
           ELSE /\ pos' = pass.val.pos
                /\ strings' = strings \o pass.val.appended
                /\ ret' = NoValue
    /\ UNCHANGED <<raw, tvars, svars, avars>>

ScanBranch ==
    /\ BranchAt(raw, pos) = "branch"
    /\ Scan

ScanPause ==
    /\ BranchAt(raw, pos) = "pause"
    /\ Scan

ScanFurigana ==
    /\ BranchAt(raw, pos) = "furigana"
    /\ Scan

ScanChoice ==
    /\ BranchAt(raw, pos) = "choice"
    /\ Scan

ScanVariable ==
    /\ BranchAt(raw, pos) = "variable"
    /\ Scan

ScanColor ==
    /\ BranchAt(raw, pos) = "color"
    /\ Scan

ScanButton ==
    /\ BranchAt(raw, pos) = "button"
    /\ Scan

ScanLineBreak ==
    /\ BranchAt(raw, pos) = "linebreak"
    /\ Scan

ScanFiller ==
    /\ BranchAt(raw, pos) = "filler"
    /\ Scan

ScanPlain ==
    /\ BranchAt(raw, pos) = "plain"
    /\ Scan

\* lines 219-221: the terminator ends the loop and the joined string is returned
ScanBreak ==
    /\ ret = NoValue
    /\ pos <= Len(raw) + MaxOverrun
    /\ BranchAt(raw, pos) = "break"
    /\ last' = [branch |-> "break", pos |-> pos, had |-> Len(strings)]
    /\ ret' = Return(Join(strings))
    /\ UNCHANGED <<raw, pos, strings, tvars, svars, avars>>

TextNext ==
    \/ ScanBranch
    \/ ScanPause
    \/ ScanFurigana
    \/ ScanChoice
    \/ ScanVariable
    \/ ScanColor
    \/ ScanButton
    \/ ScanLineBreak
    \/ ScanFiller
    \/ ScanPlain
    \/ ScanBreak

TextSpec == TextInit /\ [][TextNext]_vars

\* C8: getstring ends for every buffer and start offset; once the scan position
\* is at or past the end of the buffer the loop does not go on, so the pass
\* run there ends the call.
C8_ScanEndsAtBufferEnd ==
    [][(ret = NoValue /\ pos >= Len(raw)) => ret' # NoValue]_vars

(***************************************************************************)
(* What the claims say of a choice set, read off the buffer.               *)
(***************************************************************************)
ChoiceCount(buf, p) == LittleEndian(Slice(buf, p + 12, p + 16))

DeclaredLength(buf, s) == LittleEndian(Slice(buf, s + 4, s + 6))

RECURSIVE OptionStart(_, _, _)
OptionStart(buf, p, i) ==
    IF i = 1 THEN p + 16 + 4 * ChoiceCount(buf, p)
    ELSE OptionStart(buf, p, i - 1) + 8 + DeclaredLength(buf, OptionStart(buf, p, i - 1))

DeclaredBytes(buf, s) == Slice(buf, s + 8, s + 8 + DeclaredLength(buf, s))

NullUnits(bs) == {k \in 1..(Len(bs) \div 2) : bs[2 * k - 1] = 0 /\ bs[2 * k] = 0}

\* the bytes in front of the first 0x0000 code unit
CutAtNull(bs) ==
    IF NullUnits(bs) = {} THEN bs
    ELSE Slice(bs, 0, 2 * ((CHOOSE k \in NullUnits(bs) : \A l \in NullUnits(bs) : k <= l) - 1))

\* a choice set at p that lies within the buffer, its options of even length
\* and valid UTF-16 up to their first 0x0000 code unit
WellFormedChoice(buf, p) ==
    /\ Slice(buf, p, p + 4) = Sentinel(245)
    /\ p + 16 <= Len(buf)
    /\ \A i \in 1..ChoiceCount(buf, p) :
         LET s == OptionStart(buf, p, i)
         IN  /\ s + 8 <= Len(buf)
             /\ DeclaredLength(buf, s) % 2 = 0
             /\ s + 8 + DeclaredLength(buf, s) <= Len(buf)
             /\ Returned(Decode(CutAtNull(DeclaredBytes(buf, s))))

RECURSIVE JoinedOptions(_, _, _)
JoinedOptions(buf, p, i) ==
    IF i > ChoiceCount(buf, p) THEN << >>
    ELSE Decode(CutAtNull(DeclaredBytes(buf, OptionStart(buf, p, i)))).val
         \o (IF i < ChoiceCount(buf, p) THEN Slash ELSE << >>)
         \o JoinedOptions(buf, p, i + 1)

\* the text the pass last run appended
LastAppended == Join(SubSeq(strings, last.had + 1, Len(strings)))

AfterChoice == last # NoValue /\ last.branch = "choice" /\ WellFormedChoice(raw, last.pos)

\* C9 as stated: a choice set emits '(' , its options joined by ' / ', and ')',
\* whatever was emitted before it in the same string.
C9_ChoiceOpensWithParen ==
    AfterChoice =>
        /\ ret = NoValue
        /\ LastAppended = OpenParen \o JoinedOptions(raw, last.pos, 1) \o CloseParen

\* C9, amended: a choice set that lies within the buffer, its options of even
\* length, emits '(' when no fragment was appended before it in the same string
\* and ' (' when one was, then its options joined by ' / ', then ')', each
\* option cut at its first 0x0000 code unit, and the scan goes on behind it.
C9_ChoiceOpensBySpaceRule ==
    AfterChoice =>
        /\ ret = NoValue
        /\ LastAppended = (IF last.had > 0 THEN SpaceOpenParen ELSE OpenParen)
                          \o JoinedOptions(raw, last.pos, 1) \o CloseParen
        /\ pos = IF ChoiceCount(raw, last.pos) = 0 THEN OptionStart(raw, last.pos, 1)
                 ELSE OptionStart(raw, last.pos, ChoiceCount(raw, last.pos) + 1)

\* 'A' and then the choice of X and Y: ' (X / Y)' is appended
C9_Witness ==
    /\ AfterChoice
    /\ last.had = 1
    /\ strings[1] = <<65>>
    /\ LastAppended = <<32, 40, 88, 32, 47, 32, 89, 41>>

(***************************************************************************)
(* What the claims say of a control code whose bytes the buffer does not   *)
(* hold in full.                                                           *)
(***************************************************************************)
\* the branches of the loop that read a control code
ControlCodes ==
    {"branch", "pause", "furigana", "choice", "variable", "color", "button", "linebreak"}

\* the control code at p runs past the end of the buffer: the lengths and
\* counts it declares put its last byte behind the last byte of buf, or a
\* field of it is cut off
SpanPastEnd(buf, p, had) ==
    /\ BranchAt(buf, p) \in ControlCodes
    /\ \/ IsExc(LoopPass(buf, p, had))
       \/ LoopPass(buf, p, had).val.pos > Len(buf)

\* C11: when the lengths or counts a control code declares run past the end of
\* the buffer, the pass that reads the code ends the call with an error.
C11_TruncatedCodeFails ==
    [][(ret = NoValue /\ SpanPastEnd(raw, pos, Len(strings))) => IsExc(ret')]_vars

\* no string is returned once the scan has passed the end of the buffer
NoStringPastEnd == Returned(ret) => pos + 2 <= Len(raw)

(***************************************************************************)
(* What the claims say of the progress of the scan.                        *)
(***************************************************************************)
\* the end of the bytes decoded as the text of the option at s
OptionTextEnd(buf, s) ==
    Min(ChoiceEndPos(buf, s + 8, s + 8 + DeclaredLength(buf, s)), Len(buf))

\* an option of the choice set at p whose text takes bytes behind the position
\* the scan goes on from
OptionOverrun(buf, p) ==
    \E i \in 1..ChoiceCount(buf, p) :
        OptionTextEnd(buf, OptionStart(buf, p, i)) > OptionStart(buf, p, i + 1)

\* every pass that does not end the call moves the scan position forward
ScanPositionIncreases == [][(ret = NoValue /\ ret' = NoValue) => pos' > pos]_vars

\* C12: on every pass that does not end the scan the position strictly
\* increases and no byte is taken twice: the bytes a choice pass decodes as an
\* option's text all lie in front of the position the scan goes on from.
C12_ScanAdvances ==
    [][(ret = NoValue /\ ret' = NoValue)
         => /\ pos' > pos
            /\ ~(BranchAt(raw, pos) = "choice" /\ OptionOverrun(raw, pos))]_vars

(***************************************************************************)
(* arc.py: Arc.__init__, unpack_file and the directory walk.               *)
(***************************************************************************)
\* Arc.MAGIC, b'R \rC'
ArcMagic == <<82, 32, 13, 67>>

ArcHeaderSize == 20

ArcEntrySize == 20

\* bs.decode('ascii')
DecodeAscii(bs) ==
    IF \E i \in 1..Len(bs) : bs[i] >= 128 THEN Raise("UnicodeDecodeError") ELSE Return(bs)

\* lines 50-55: unpack('<BBH4I', ...) of one entry and the read of its path
ArcEntry(f, bs) ==
    IF Len(bs) # ArcEntrySize THEN Raise("struct.error")
    ELSE LET path_length == bs[2]
             file_length == LittleEndian(Slice(bs, 8, 12))
             path_offset == LittleEndian(Slice(bs, 12, 16))
             file_offset == LittleEndian(Slice(bs, 16, 20))
             path == DecodeAscii(Slice(f, path_offset, path_offset + path_length))
         IN  IF IsExc(path) THEN path
             ELSE Return([path |-> path.val, file_length |-> file_length,
                          path_offset |-> path_offset, file_offset |-> file_offset])

\* lines 49-56: the loop over range(0, len(raw_file_entries), 0x14)
RECURSIVE ArcEntries(_, _, _)
ArcEntries(f, raw_file_entries, offset) ==
    IF offset >= Len(raw_file_entries) THEN Return(<< >>)
    ELSE LET entry == ArcEntry(f, Slice(raw_file_entries, offset, offset + ArcEntrySize))
         IN  IF IsExc(entry) THEN entry
             ELSE LET rest == ArcEntries(f, raw_file_entries, offset + ArcEntrySize)
                  IN  IF IsExc(rest) THEN rest ELSE Return(<<entry.val>> \o rest.val)

\* Arc.__init__ on a file of bytes f: the entries, or the exception
ArcInit(f) ==
    IF Slice(f, 0, 4) # ArcMagic THEN Raise("InvalidFileError")
    ELSE IF Len(f) < ArcHeaderSize THEN Raise("InvalidFileError")
    ELSE LET header == UnpackU32s(Slice(f, 4, 20), 4)
         IN  IF IsExc(header) THEN header
             ELSE IF ArcHeaderSize + header.val[1] # Len(f) THEN Raise("InvalidFileError")
             ELSE ArcEntries(f, Slice(f, header.val[4], Len(f)), 0)

\* unpack_file: what it writes, entry by entry (getdata reads file_length bytes
\* at file_offset)
unpack_file(f) ==
    LET bin == ArcInit(f)
    IN  IF IsExc(bin) THEN bin
        ELSE Return([i \in 1..Len(bin.val) |->
                        [path |-> bin.val[i].path,
                         data |-> Slice(f, bin.val[i].file_offset,
                                        bin.val[i].file_offset + bin.val[i].file_length)]])

\* line 107: except (TypeError, struct_error)
Caught == {"TypeError", "struct.error"}

(***************************************************************************)
(* The files the walk specification draws from.                            *)
(***************************************************************************)
\* an archive of one entry: header, one path byte, one data byte, the entry,
\* and extra bytes behind it; data_length is off by delta
ArcBytes(magic, pathbyte, extra, delta) ==
    magic \o U32(2 + ArcEntrySize + extra + delta) \o U32(0) \o U32(0)
    \o U32(ArcHeaderSize + 2) \o <<pathbyte, 7>>
    \o <<0, 1, 0, 0>> \o U32(0) \o U32(1) \o U32(ArcHeaderSize) \o U32(ArcHeaderSize + 1)
    \o Zeros(extra)

ArcFiles ==
    {ArcBytes(ArcMagic, 97, 0, 0),
     ArcBytes(ArcMagic, 200, 0, 0),
     ArcBytes(ArcMagic, 97, 1, 0),
     ArcBytes(ArcMagic, 97, 0, 1),
     ArcBytes(Magic, 97, 0, 0),
     Slice(ArcBytes(ArcMagic, 97, 0, 0), 0, 10),
     << >>}

WalkInit ==
    /\ TableIdle
    /\ SCRIdle
    /\ TextIdle
    /\ walk \in UNION {[1..n -> ArcFiles] : n \in 0..MaxWalk}
    /\ visited = 0
    /\ written = << >>
    /\ escaped = NoValue

\* the loop takes the next file while no exception has left it
Taking ==
    /\ escaped = NoValue
    /\ visited < Len(walk)
    /\ visited' = visited + 1
    /\ UNCHANGED <<walk, tvars, svars, gvars>>

\* lines 103-106: unpack_file returns
VisitUnpacked ==
    /\ Taking
    /\ Returned(unpack_file(walk[visited + 1]))
    /\ written' = written \o unpack_file(walk[visited + 1]).val
    /\ UNCHANGED escaped

\* lines 107-108: unpack_file raises one of the exceptions the loop catches
VisitSkipped ==
    /\ Taking
    /\ IsExc(unpack_file(walk[visited + 1]))
    /\ unpack_file(walk[visited + 1]).exc \in Caught
    /\ UNCHANGED <<written, escaped>>

\* unpack_file raises any other exception: it leaves the loop and the walk
VisitEscaped ==
    /\ Taking
    /\ IsExc(unpack_file(walk[visited + 1]))
    /\ unpack_file(walk[visited + 1]).exc \notin Caught
    /\ escaped' = unpack_file(walk[visited + 1])
    /\ UNCHANGED written

WalkNext == VisitUnpacked \/ VisitSkipped \/ VisitEscaped

WalkSpec == WalkInit /\ [][WalkNext]_vars

\* magic mismatch, file too small, or 0x14 + data_length off the file size
FailsValidation(f) ==
    \/ Slice(f, 0, 4) # ArcMagic
    \/ Len(f) < ArcHeaderSize
    \/ ArcHeaderSize + LittleEndian(Slice(f, 4, 8)) # Len(f)

\* C10: a file of the walk that fails container validation is skipped and the
\* loop goes on to the files behind it: no such file makes an exception leave
\* the loop.
C10_InvalidFileSkipped ==
    \A i \in 1..visited : FailsValidation(walk[i]) => escaped = NoValue

=============================================================================
